---- MODULE Spec2Model ----
(* Model of the namespace cache of shade/fusefs: Tree, Node, NewTree,      *)
(* Refresh, addParents and the query methods, against a drive.Client whose *)
(* listing and fetch results are nondeterministic.                         *)
EXTENDS Integers, Sequences, FiniteSets, TLC

(***************************************************************************)
(* Bounds                                                                  *)
(***************************************************************************)
\* longest slice ListFiles returns
MaxList == 2
\* number of Refresh passes of one Tree (the bootstrap pass included)
MaxPasses == 2
\* the passes of a periodic task that is followed tick by tick
MaxRuns == 3
\* number of distinct blobs handed to a client
MaxBlobs == 3

(***************************************************************************)
(* Strings.  A Go string is modelled as a sequence of one-character        *)
(* strings, so that path.Split and strings.TrimSuffix do what they do.     *)
(***************************************************************************)
Root == <<"/">>
Empty == <<>>

\* the nil []byte of a synthetic directory, and the zero time.Time
NilSha == 0
ZeroTime == 0

\* index of the last "/" of p, 0 when there is none (strings.LastIndex)
LastSlash(p) ==
  LET S == {i \in 1..Len(p) : p[i] = "/"}
  IN IF S = {} THEN 0 ELSE CHOOSE i \in S : \A j \in S : j <= i

\* path.Split: everything up to and including the last slash, and the rest
Split(p) ==
  LET i == LastSlash(p)
  IN <<SubSeq(p, 1, i), SubSeq(p, i + 1, Len(p))>>

\* strings.TrimSuffix(s, "/")
TrimSuffix(s) ==
  IF Len(s) > 0 /\ s[Len(s)] = "/" THEN SubSeq(s, 1, Len(s) - 1) ELSE s

(***************************************************************************)
(* The blobs of the backend, by content hash.  A hash always names the     *)
(* same bytes.  ok = FALSE is a blob that is not a JSON shade.File.        *)
(***************************************************************************)
Blobs ==
  << [ok |-> TRUE,  Filename |-> <<"a", "/", "b">>, Filesize |-> 10, ModifiedTime |-> 1],
     [ok |-> TRUE,  Filename |-> <<"a", "/", "b">>, Filesize |-> 20, ModifiedTime |-> 2],
     [ok |-> TRUE,  Filename |-> <<"a", "/", "b">>, Filesize |-> 30, ModifiedTime |-> 2],
     [ok |-> TRUE,  Filename |-> <<"a">>,           Filesize |-> 40, ModifiedTime |-> 1],
     [ok |-> TRUE,  Filename |-> <<"c">>,           Filesize |-> 50, ModifiedTime |-> 1],
     [ok |-> TRUE,  Filename |-> Root,              Filesize |-> 60, ModifiedTime |-> 1],
     [ok |-> FALSE, Filename |-> Empty,             Filesize |-> 0,  ModifiedTime |-> ZeroTime] >>

Hashes == 1..Len(Blobs)

\* what a successful client.GetChunk(sha256sum) returns
GetChunk(sha) == Blobs[sha]

\* the path and the modified time of the record stored under a hash
PathOf(h) == GetChunk(h).Filename
TimeOf(h) == GetChunk(h).ModifiedTime

\* file.FromJSON(f) succeeds: the blob parses, its path is not empty and its
\* modified time is set
FromJSON(f) == f.ok /\ f.Filename # Empty /\ f.ModifiedTime # ZeroTime

\* every slice ListFiles may return
Lists == UNION {[1..n -> Hashes] : n \in 0..MaxList}

(***************************************************************************)
(* Node and Tree                                                           *)
(***************************************************************************)
\* Children is a Go map: ChildrenNil says that the map is nil (reading it
\* gives false for every key, writing to it panics); Children is its key set
NewNode(name, size, mtime, sha, isnil, kids) ==
  [Filename |-> name, Filesize |-> size, ModifiedTime |-> mtime,
   Sha256sum |-> sha, ChildrenNil |-> isnil, Children |-> kids]

Synthetic(n) == n.Sha256sum = NilSha

\* the nodes map of NewTree
InitNodes == [p \in {Root} |-> NewNode(Root, 0, ZeroTime, NilSha, FALSE, {})]

\* t.nodes[k] = n
Put(ns, k, n) == [p \in DOMAIN ns \cup {k} |-> IF p = k THEN n ELSE ns[p]]

\* variants of After: Before called in its place; After-or-equal
AfterReversed(t, u) == t < u
AfterOrEqual(t, u) == t >= u

\* time.Time.After
After(t, u) == t > u

\* variant of NodeOf that leaves Sha256sum unset
NodeOfNoSha(sha) ==
  LET file == GetChunk(sha)
  IN NewNode(file.Filename, file.Filesize, file.ModifiedTime, NilSha, TRUE, {})

\* the Node Refresh builds from a parsed shade.File
NodeOf(sha) ==
  LET file == GetChunk(sha)
  IN NewNode(file.Filename, file.Filesize, file.ModifiedTime, sha, TRUE, {})

\* variant of the stale check: the record always replaces the node
StaleNever(ns, node) == FALSE

\* the stale check of Refresh
Stale(ns, node) ==
  /\ node.Filename \in DOMAIN ns
  /\ After(ns[node.Filename].ModifiedTime, node.ModifiedTime)

\* variant of addParents that registers the child with its parent only, and
\* does not walk up
addParentsOneLevel(t, filepath) ==
  LET sp  == Split(filepath)
      dir == IF sp[1] = Empty THEN Root ELSE TrimSuffix(sp[1])
      f   == sp[2]
  IN IF dir \notin DOMAIN t.nodes
       THEN [t EXCEPT !.nodes =
               Put(t.nodes, dir, NewNode(dir, 0, ZeroTime, NilSha, FALSE, {f}))]
     ELSE IF t.nodes[dir].ChildrenNil
       THEN [t EXCEPT !.panic = TRUE]
     ELSE [t EXCEPT !.nodes[dir].Children = @ \cup {f}]

\* variant of addParents that initializes the parent whether it exists or not
RECURSIVE addParentsOverwrite(_, _)
addParentsOverwrite(t, filepath) ==
  LET sp  == Split(filepath)
      dir == IF sp[1] = Empty THEN Root ELSE TrimSuffix(sp[1])
      f   == sp[2]
      u   == [t EXCEPT !.nodes =
                Put(t.nodes, dir, NewNode(dir, 0, ZeroTime, NilSha, FALSE, {f}))]
  IN IF dir # Root THEN addParentsOverwrite(u, dir) ELSE u

\* variant of addParents that registers the full path, not the name, with
\* the parent
RECURSIVE addParentsFullName(_, _)
addParentsFullName(t, filepath) ==
  LET sp  == Split(filepath)
      dir == IF sp[1] = Empty THEN Root ELSE TrimSuffix(sp[1])
  IN IF dir \notin DOMAIN t.nodes
       THEN LET u == [t EXCEPT !.nodes =
                        Put(t.nodes, dir, NewNode(dir, 0, ZeroTime, NilSha, FALSE, {filepath}))]
            IN IF dir # Root THEN addParentsFullName(u, dir) ELSE u
     ELSE IF t.nodes[dir].ChildrenNil
       THEN [t EXCEPT !.panic = TRUE]
     ELSE LET u == [t EXCEPT !.nodes[dir].Children = @ \cup {filepath}]
          IN IF dir # Root THEN addParentsFullName(u, dir) ELSE u

\* addParents: t is [nodes, panic]; a write to a nil Children map panics and
\* leaves the map as the levels below it have made it
RECURSIVE addParents(_, _)
addParents(t, filepath) ==
  LET sp  == Split(filepath)
      dir == IF sp[1] = Empty THEN Root ELSE TrimSuffix(sp[1])
      f   == sp[2]
  IN IF dir \notin DOMAIN t.nodes
       THEN LET u == [t EXCEPT !.nodes =
                        Put(t.nodes, dir, NewNode(dir, 0, ZeroTime, NilSha, FALSE, {f}))]
            IN IF dir # Root THEN addParents(u, dir) ELSE u
     ELSE IF t.nodes[dir].ChildrenNil
       THEN [t EXCEPT !.panic = TRUE]
     ELSE LET u == [t EXCEPT !.nodes[dir].Children = @ \cup {f}]
          IN IF dir # Root THEN addParents(u, dir) ELSE u

\* the locked section of Refresh for a record that is not stale
InstallNode(ns, node) ==
  addParents([nodes |-> Put(ns, node.Filename, node), panic |-> FALSE], node.Filename)

\* FileByNode, for a GetChunk that succeeds (fetched) or fails: the error it
\* returns and the number of backend calls it makes
FileByNode(n, fetched) ==
  IF Synthetic(n) THEN [err |-> "no shade.File defined", calls |-> 0]
  ELSE IF ~fetched THEN [err |-> "GetChunk", calls |-> 1]
  ELSE IF ~FromJSON(GetChunk(n.Sha256sum)) THEN [err |-> "FromJSON", calls |-> 1]
  ELSE [err |-> "nil", calls |-> 1]

\* HasChild, NumNodes
HasChild(ns, parent, child) ==
  parent \in DOMAIN ns /\ ~ns[parent].ChildrenNil /\ child \in ns[parent].Children
NumNodes(ns) == Cardinality(DOMAIN ns)

(***************************************************************************)
(* One iteration of the loop of Refresh as a function of the pass state    *)
(* [nodes, known, panic], for a hash whose fetch succeeds; and a whole     *)
(* pass over a list all of whose fetches succeed.                          *)
(***************************************************************************)
LoopBody(st, sha) ==
  IF st.panic \/ sha \in st.known \/ ~FromJSON(GetChunk(sha)) THEN st
  ELSE IF Stale(st.nodes, NodeOf(sha)) THEN st
  ELSE LET r == InstallNode(st.nodes, NodeOf(sha))
       IN [nodes |-> r.nodes, panic |-> r.panic,
           known |-> IF r.panic THEN st.known ELSE st.known \cup {sha}]

RECURSIVE LoopFrom(_, _, _)
LoopFrom(st, list, i) ==
  IF i > Len(list) THEN st ELSE LoopFrom(LoopBody(st, list[i]), list, i + 1)

RefreshSeq(ns, list) == LoopFrom([nodes |-> ns, known |-> {}, panic |-> FALSE], list, 1)

(***************************************************************************)
(* State                                                                   *)
(***************************************************************************)
VARIABLES
  nodes,       \* t.nodes
  nm,          \* t.nm: "unlocked" or "locked" (write)
  tree,        \* NewTree: "constructing", "ready" (returned t), "none" (returned err)
  refresh,     \* NewTree was given a ticker
  periodic,    \* the periodicRefresh goroutine runs
  pc,          \* Refresh: "list", "loop", "returned"; "panic" after a panic
  newFiles,    \* the slice of the last successful ListFiles
  idx,         \* position of the range loop, 0 before ListFiles has returned
  knownNodes,  \* knownNodes of the running pass
  err,         \* what the last Refresh returned: "nil" or "ListFiles"
  passes,      \* number of passes started
  startNodes,  \* history: t.nodes when the running pass began
  failed,      \* history: positions of newFiles whose GetChunk failed in this pass
  nfetch,      \* history: GetChunk calls of this pass
  processed,   \* history: hashes whose record reached the locked section
  repeat,      \* history: the pass before this one returned nil with no failed
               \* fetch and (once ListFiles has returned) listed the same slice
  \* the goroutines, step by step
  cur,         \* the filepath argument of the running addParents call
  before,      \* history: t.nodes at t.nm.Lock() and the hash locked for, while
               \* the write lock is held
  rpc,         \* the query a caller is in, holding the read lock; "idle" if none
  rarg,        \* the arguments of that query
  got,         \* what the caller's last query returned
  active,      \* number of Refresh executions that have not returned
  tick,        \* a tick waits in refresh.C
  prevFailed,  \* history: the watched hashes whose GetChunk failed in an
               \* earlier pass, and whether an earlier pass returned an error
  \* a drive.Client on its own
  files,       \* the hashes the client lists
  chunks,      \* the bytes the client holds, by hash
  everPut,     \* history: hashes whose PutFile or PutChunk has returned
  everPutFile, \* history: hashes whose PutFile has returned
  bgot         \* what the last GetChunk or ListFiles of the client returned

\* the variables the step-by-step goroutines add, and those of the client
concVars == <<cur, before, rpc, rarg, got, active, tick, prevFailed>>
backVars == <<files, chunks, everPut, everPutFile, bgot>>

\* the variables of the Tree and of the coarse Refresh
treeVars == <<nodes, nm, tree, refresh, periodic, pc, newFiles, idx,
              knownNodes, err, passes, startNodes, failed, nfetch, processed,
              repeat>>

vars == <<nodes, nm, tree, refresh, periodic, pc, newFiles, idx, knownNodes,
          err, passes, startNodes, failed, nfetch, processed, repeat,
          concVars, backVars>>

\* no result yet
NoResult == [op |-> "none"]

\* the write lock is not held
NoLock == [nodes |-> InitNodes, sha |-> NilSha]

\* no caller, no tick, one Refresh (that of NewTree) running
ConcIdle ==
  /\ cur = Empty
  /\ before = NoLock
  /\ rpc = "idle"
  /\ rarg = <<>>
  /\ got = NoResult
  /\ active = 1
  /\ tick = FALSE
  /\ prevFailed = [fetch |-> {}, list |-> FALSE]

\* a new, empty client
BackendEmpty ==
  /\ files = {}
  /\ chunks = <<>>
  /\ everPut = {}
  /\ everPutFile = {}
  /\ bgot = NoResult

\* NewTree up to its call of t.Refresh
Init ==
  /\ nodes = InitNodes
  /\ nm = "unlocked"
  /\ tree = "constructing"
  /\ refresh \in BOOLEAN
  /\ periodic = FALSE
  /\ pc = "list"
  /\ newFiles = <<>>
  /\ idx = 0
  /\ knownNodes = {}
  /\ err = "nil"
  /\ passes = 1
  /\ startNodes = InitNodes
  /\ failed = {}
  /\ nfetch = 0
  /\ processed = {}
  /\ repeat = FALSE
  /\ ConcIdle
  /\ BackendEmpty

(***************************************************************************)
(* Refresh                                                                 *)
(***************************************************************************)
\* t.client.ListFiles() returns a slice
ListFilesOk ==
  /\ pc = "list"
  /\ \E l \in Lists :
       /\ repeat' = (repeat /\ l = newFiles)
       /\ newFiles' = l
  /\ idx' = 1
  /\ pc' = "loop"
  /\ UNCHANGED <<nodes, nm, tree, refresh, periodic, knownNodes, err, passes,
                 startNodes, failed, nfetch, processed>>
  /\ UNCHANGED <<concVars, backVars>>

\* variant of ListFilesErr that drops the cache when the listing fails
ListFilesErrClears ==
  /\ pc = "list"
  /\ pc' = "returned"
  /\ err' = "ListFiles"
  /\ repeat' = FALSE
  /\ nodes' = InitNodes
  /\ UNCHANGED <<nm, tree, refresh, periodic, newFiles, idx, knownNodes,
                 passes, startNodes, failed, nfetch, processed>>
  /\ UNCHANGED <<concVars, backVars>>

\* t.client.ListFiles() returns an error: Refresh returns it
ListFilesErr ==
  /\ pc = "list"
  /\ pc' = "returned"
  /\ err' = "ListFiles"
  /\ repeat' = FALSE
  /\ UNCHANGED <<nodes, nm, tree, refresh, periodic, newFiles, idx, knownNodes,
                 passes, startNodes, failed, nfetch, processed>>
  /\ UNCHANGED <<concVars, backVars>>

InLoop == pc = "loop" /\ idx <= Len(newFiles)
sha256sum == newFiles[idx]

\* knownNodes[string(sha256sum)]: continue
SkipKnown ==
  /\ InLoop
  /\ sha256sum \in knownNodes
  /\ idx' = idx + 1
  /\ UNCHANGED <<nodes, nm, tree, refresh, periodic, pc, newFiles, knownNodes,
                 err, passes, startNodes, failed, nfetch, processed, repeat>>
  /\ UNCHANGED <<concVars, backVars>>

\* GetChunk returns an error: log and continue
FetchFail ==
  /\ InLoop
  /\ sha256sum \notin knownNodes
  /\ idx' = idx + 1
  /\ failed' = failed \cup {idx}
  /\ nfetch' = nfetch + 1
  /\ UNCHANGED <<nodes, nm, tree, refresh, periodic, pc, newFiles, knownNodes,
                 err, passes, startNodes, processed, repeat>>
  /\ UNCHANGED <<concVars, backVars>>

\* variant of ParseFail that returns the error in place of continue
ParseFailReturns ==
  /\ InLoop
  /\ sha256sum \notin knownNodes
  /\ ~FromJSON(GetChunk(sha256sum))
  /\ pc' = "returned"
  /\ err' = "FromJSON"
  /\ nfetch' = nfetch + 1
  /\ UNCHANGED <<nodes, nm, tree, refresh, periodic, newFiles, idx, knownNodes,
                 passes, startNodes, failed, processed, repeat>>
  /\ UNCHANGED <<concVars, backVars>>

\* FromJSON returns an error: log and continue
ParseFail ==
  /\ InLoop
  /\ sha256sum \notin knownNodes
  /\ ~FromJSON(GetChunk(sha256sum))
  /\ idx' = idx + 1
  /\ nfetch' = nfetch + 1
  /\ UNCHANGED <<nodes, nm, tree, refresh, periodic, pc, newFiles, knownNodes,
                 err, passes, startNodes, failed, processed, repeat>>
  /\ UNCHANGED <<concVars, backVars>>

\* the existing node is later than the record: unlock and continue
StaleSkip ==
  /\ InLoop
  /\ sha256sum \notin knownNodes
  /\ FromJSON(GetChunk(sha256sum))
  /\ Stale(nodes, NodeOf(sha256sum))
  /\ idx' = idx + 1
  /\ nfetch' = nfetch + 1
  /\ processed' = processed \cup {sha256sum}
  /\ nm' = "unlocked"
  /\ UNCHANGED <<nodes, tree, refresh, periodic, pc, newFiles, knownNodes,
                 err, passes, startNodes, failed, repeat>>
  /\ UNCHANGED <<concVars, backVars>>

\* t.nodes[node.Filename] = node; t.addParents(node.Filename); unlock;
\* knownNodes[sha] = true.  A panic in addParents ends the process with the
\* lock held.
Install ==
  /\ InLoop
  /\ sha256sum \notin knownNodes
  /\ FromJSON(GetChunk(sha256sum))
  /\ ~Stale(nodes, NodeOf(sha256sum))
  /\ LET r == InstallNode(nodes, NodeOf(sha256sum))
     IN /\ nodes' = r.nodes
        /\ IF r.panic
             THEN pc' = "panic" /\ nm' = "locked" /\ UNCHANGED <<idx, knownNodes>>
             ELSE /\ pc' = pc
                  /\ nm' = "unlocked"
                  /\ idx' = idx + 1
                  /\ knownNodes' = knownNodes \cup {sha256sum}
  /\ nfetch' = nfetch + 1
  /\ processed' = processed \cup {sha256sum}
  /\ UNCHANGED <<tree, refresh, periodic, newFiles, err, passes, startNodes,
                 failed, repeat>>
  /\ UNCHANGED <<concVars, backVars>>

\* the range loop is over: return nil
EndPass ==
  /\ pc = "loop"
  /\ idx > Len(newFiles)
  /\ pc' = "returned"
  /\ err' = "nil"
  /\ UNCHANGED <<nodes, nm, tree, refresh, periodic, newFiles, idx, knownNodes,
                 passes, startNodes, failed, nfetch, processed, repeat>>
  /\ UNCHANGED <<concVars, backVars>>

(***************************************************************************)
(* NewTree and periodicRefresh                                             *)
(***************************************************************************)
\* NewTree after its Refresh: an error and no Tree, or the Tree, with the
\* periodic task started when a ticker was given
NewTreeReturn ==
  /\ tree = "constructing"
  /\ pc = "returned"
  /\ IF err # "nil"
       THEN tree' = "none" /\ periodic' = FALSE
       ELSE tree' = "ready" /\ periodic' = refresh
  /\ UNCHANGED <<nodes, nm, refresh, pc, newFiles, idx, knownNodes, err, passes,
                 startNodes, failed, nfetch, processed, repeat>>
  /\ UNCHANGED <<concVars, backVars>>

\* variant of EnterRefresh that rebuilds the map from scratch in every pass
EnterRefreshRebuilds ==
  /\ pc' = "list"
  /\ idx' = 0
  /\ knownNodes' = {}
  /\ passes' = passes + 1
  /\ nodes' = InitNodes
  /\ startNodes' = InitNodes
  /\ repeat' = FALSE
  /\ failed' = {}
  /\ nfetch' = 0
  /\ UNCHANGED <<nm, tree, refresh, periodic, newFiles, err, processed>>
  /\ UNCHANGED <<concVars, backVars>>

\* entry of Refresh
EnterRefresh ==
  /\ pc' = "list"
  /\ idx' = 0
  /\ knownNodes' = {}
  /\ passes' = passes + 1
  /\ startNodes' = nodes
  /\ repeat' = (err = "nil" /\ failed = {})
  /\ failed' = {}
  /\ nfetch' = 0
  /\ UNCHANGED <<nodes, nm, tree, refresh, periodic, newFiles, err, processed>>
  /\ UNCHANGED <<concVars, backVars>>

\* periodicRefresh: <-refresh.C; t.Refresh()
Tick ==
  /\ tree = "ready"
  /\ periodic
  /\ pc = "returned"
  /\ passes < MaxPasses
  /\ EnterRefresh

\* a caller of a Tree without a ticker calls t.Refresh()
CallRefresh ==
  /\ tree = "ready"
  /\ ~periodic
  /\ pc = "returned"
  /\ passes < MaxPasses
  /\ EnterRefresh

Next ==
  \/ ListFilesOk
  \/ ListFilesErr
  \/ SkipKnown
  \/ FetchFail
  \/ ParseFail
  \/ StaleSkip
  \/ Install
  \/ EndPass
  \/ NewTreeReturn
  \/ Tick
  \/ CallRefresh

Spec == Init /\ [][Next]_vars

(***************************************************************************)
(* The goroutines step by step: Refresh with its backend calls and its     *)
(* locked section as separate steps, the ticker and periodicRefresh, and   *)
(* a caller of the query methods.  Refresh has these positions:            *)
(*   "list"     in t.client.ListFiles()                                    *)
(*   "loop"     at the head of the range loop                              *)
(*   "fetch"    in t.client.GetChunk(sha256sum)                            *)
(*   "lock"     in t.nm.Lock()                                             *)
(*   "check"    holding the lock, before the stale check                   *)
(*   "parents"  in addParents(cur)                                         *)
(*   "unlock"   addParents has returned                                    *)
(***************************************************************************)
\* the records listed to the step-by-step Refresh: both times of "a/b", the
\* file "a", a blob that does not parse
ConcHashes == {h \in Hashes : ~Blobs[h].ok \/ Blobs[h].Filesize \in {10, 20, 40}}
ConcLists == UNION {[1..n -> ConcHashes] : n \in 0..MaxList}

\* the record whose failed fetches the history remembers
RetryWatched == {h \in ConcHashes : FromJSON(GetChunk(h)) /\ PathOf(h) = <<"a">>}

\* the arguments of the caller's queries
QueryPaths == {Root, <<"a">>}
QueryParents == {<<"a">>}
QueryNames == {<<"b">>}

\* NewTree with a ticker, up to its call of t.Refresh
ConcInit == Init /\ refresh = TRUE

\* the zero Node
ZeroNode == NewNode(Empty, 0, ZeroTime, NilSha, TRUE, {})

\* what NodeByPath returns: the Node by value; its Children is the map of the
\* Tree's node itself (alias) unless that map is nil
NodeByPath(ns, p) ==
  IF p \in DOMAIN ns
    THEN [op |-> "NodeByPath", err |-> FALSE, node |-> ns[p], alias |-> ~ns[p].ChildrenNil]
    ELSE [op |-> "NodeByPath", err |-> TRUE, node |-> ZeroNode, alias |-> FALSE]

\* one level of addParents: the parent directory, whether the write to its
\* Children panics, and the map after it
addParentsLevel(ns, filepath) ==
  LET sp  == Split(filepath)
      dir == IF sp[1] = Empty THEN Root ELSE TrimSuffix(sp[1])
      f   == sp[2]
  IN [dir   |-> dir,
      panic |-> dir \in DOMAIN ns /\ ns[dir].ChildrenNil,
      nodes |-> IF dir \notin DOMAIN ns
                  THEN Put(ns, dir, NewNode(dir, 0, ZeroTime, NilSha, FALSE, {f}))
                ELSE IF ns[dir].ChildrenNil THEN ns
                ELSE [ns EXCEPT ![dir].Children = @ \cup {f}]]


\* t.client.ListFiles() returns a slice
RefreshListOk ==
  /\ pc = "list"
  /\ newFiles' \in ConcLists
  /\ idx' = 1
  /\ pc' = "loop"
  /\ UNCHANGED <<nodes, nm, tree, refresh, periodic, knownNodes, err, passes,
                 startNodes, failed, nfetch, processed, repeat, cur, before,
                 rpc, rarg, got, active, tick, prevFailed, files, chunks,
                 everPut, everPutFile, bgot>>

\* t.client.ListFiles() returns an error: Refresh returns it
RefreshListErr ==
  /\ pc = "list"
  /\ pc' = "returned"
  /\ err' = "ListFiles"
  /\ active' = active - 1
  /\ UNCHANGED <<nodes, nm, tree, refresh, periodic, newFiles, idx,
                 knownNodes, passes, startNodes, failed, nfetch, processed,
                 repeat, cur, before, rpc, rarg, got, tick, prevFailed,
                 files, chunks, everPut, everPutFile, bgot>>

\* knownNodes[string(sha256sum)]: continue
LoopSkipKnown ==
  /\ InLoop
  /\ sha256sum \in knownNodes
  /\ idx' = idx + 1
  /\ UNCHANGED <<nodes, nm, tree, refresh, periodic, pc, newFiles,
                 knownNodes, err, passes, startNodes, failed, nfetch,
                 processed, repeat, cur, before, rpc, rarg, got, active,
                 tick, prevFailed, files, chunks, everPut, everPutFile, bgot>>

\* variant of GetChunkCall that takes the lock before the fetch
GetChunkCallLocked ==
  /\ InLoop
  /\ sha256sum \notin knownNodes
  /\ rpc = "idle"
  /\ nm' = "locked"
  /\ pc' = "fetch"
  /\ UNCHANGED <<nodes, tree, refresh, periodic, newFiles, idx, knownNodes,
                 err, passes, startNodes, failed, nfetch, processed, repeat,
                 cur, before, rpc, rarg, got, active, tick, prevFailed,
                 files, chunks, everPut, everPutFile, bgot>>

\* Refresh calls t.client.GetChunk(sha256sum)
GetChunkCall ==
  /\ InLoop
  /\ sha256sum \notin knownNodes
  /\ pc' = "fetch"
  /\ UNCHANGED <<nodes, nm, tree, refresh, periodic, newFiles, idx,
                 knownNodes, err, passes, startNodes, failed, nfetch,
                 processed, repeat, cur, before, rpc, rarg, got, active,
                 tick, prevFailed, files, chunks, everPut, everPutFile, bgot>>

\* GetChunk returns an error: log and continue
GetChunkErr ==
  /\ pc = "fetch"
  /\ pc' = "loop"
  /\ idx' = idx + 1
  /\ failed' = failed \cup {idx}
  /\ UNCHANGED <<nodes, nm, tree, refresh, periodic, newFiles, knownNodes,
                 err, passes, startNodes, nfetch, processed, repeat, cur,
                 before, rpc, rarg, got, active, tick, prevFailed, files,
                 chunks, everPut, everPutFile, bgot>>

\* GetChunk returns a blob that FromJSON rejects: log and continue
FromJSONErr ==
  /\ pc = "fetch"
  /\ ~FromJSON(GetChunk(sha256sum))
  /\ pc' = "loop"
  /\ idx' = idx + 1
  /\ UNCHANGED <<nodes, nm, tree, refresh, periodic, newFiles, knownNodes,
                 err, passes, startNodes, failed, nfetch, processed, repeat,
                 cur, before, rpc, rarg, got, active, tick, prevFailed,
                 files, chunks, everPut, everPutFile, bgot>>

\* GetChunk returns a blob that parses: on to t.nm.Lock()
GetChunkOk ==
  /\ pc = "fetch"
  /\ FromJSON(GetChunk(sha256sum))
  /\ pc' = "lock"
  /\ UNCHANGED <<nodes, nm, tree, refresh, periodic, newFiles, idx,
                 knownNodes, err, passes, startNodes, failed, nfetch,
                 processed, repeat, cur, before, rpc, rarg, got, active,
                 tick, prevFailed, files, chunks, everPut, everPutFile, bgot>>

\* t.nm.Lock() returns: no reader holds the lock
Lock ==
  /\ pc = "lock"
  /\ nm = "unlocked"
  /\ rpc = "idle"
  /\ nm' = "locked"
  /\ pc' = "check"
  /\ before' = [nodes |-> nodes, sha |-> sha256sum]
  /\ UNCHANGED <<nodes, tree, refresh, periodic, newFiles, idx, knownNodes,
                 err, passes, startNodes, failed, nfetch, processed, repeat,
                 cur, rpc, rarg, got, active, tick, prevFailed, files,
                 chunks, everPut, everPutFile, bgot>>

\* the existing node is later than the record: unlock and continue
StaleUnlock ==
  /\ pc = "check"
  /\ Stale(nodes, NodeOf(sha256sum))
  /\ nm' = "unlocked"
  /\ pc' = "loop"
  /\ idx' = idx + 1
  /\ before' = NoLock
  /\ UNCHANGED <<nodes, tree, refresh, periodic, newFiles, knownNodes, err,
                 passes, startNodes, failed, nfetch, processed, repeat, cur,
                 rpc, rarg, got, active, tick, prevFailed, files, chunks,
                 everPut, everPutFile, bgot>>

\* variant of PutNode that holds the lock for the map write only
PutNodeUnlocks ==
  /\ pc = "check"
  /\ ~Stale(nodes, NodeOf(sha256sum))
  /\ nodes' = Put(nodes, NodeOf(sha256sum).Filename, NodeOf(sha256sum))
  /\ cur' = NodeOf(sha256sum).Filename
  /\ pc' = "parents"
  /\ got' = IF got.op = "NodeByPath" /\ got.alias
                  /\ got.node.Filename = NodeOf(sha256sum).Filename
               THEN [got EXCEPT !.alias = FALSE,
                                !.node.Children = nodes[got.node.Filename].Children]
               ELSE got
  /\ nm' = "unlocked"
  /\ UNCHANGED <<tree, refresh, periodic, newFiles, idx, knownNodes, err,
                 passes, startNodes, failed, nfetch, processed, repeat,
                 before, rpc, rarg, active, tick, prevFailed, files, chunks,
                 everPut, everPutFile, bgot>>

\* t.nodes[node.Filename] = node.  The map that a Node returned earlier for
\* this path shares is no longer the map of the Tree's node.
PutNode ==
  /\ pc = "check"
  /\ ~Stale(nodes, NodeOf(sha256sum))
  /\ nodes' = Put(nodes, NodeOf(sha256sum).Filename, NodeOf(sha256sum))
  /\ cur' = NodeOf(sha256sum).Filename
  /\ pc' = "parents"
  /\ got' = IF got.op = "NodeByPath" /\ got.alias
                  /\ got.node.Filename = NodeOf(sha256sum).Filename
               THEN [got EXCEPT !.alias = FALSE,
                                !.node.Children = nodes[got.node.Filename].Children]
               ELSE got
  /\ UNCHANGED <<nm, tree, refresh, periodic, newFiles, idx, knownNodes, err,
                 passes, startNodes, failed, nfetch, processed, repeat,
                 before, rpc, rarg, active, tick, prevFailed, files, chunks,
                 everPut, everPutFile, bgot>>

\* one call of addParents: it registers the child, then calls itself for the
\* parent unless that is the root; a write to a nil map panics, and the
\* process ends with the lock held
AddParentsLevel ==
  /\ pc = "parents"
  /\ LET r == addParentsLevel(nodes, cur)
     IN /\ nodes' = r.nodes
        /\ IF r.panic THEN pc' = "panic" /\ cur' = cur
           ELSE IF r.dir # Root THEN pc' = pc /\ cur' = r.dir
           ELSE pc' = "unlock" /\ cur' = Empty
  /\ UNCHANGED <<nm, tree, refresh, periodic, newFiles, idx, knownNodes, err,
                 passes, startNodes, failed, nfetch, processed, repeat,
                 before, rpc, rarg, got, active, tick, prevFailed, files,
                 chunks, everPut, everPutFile, bgot>>

\* t.nm.Unlock(); knownNodes[string(sha256sum)] = true
Unlock ==
  /\ pc = "unlock"
  /\ nm' = "unlocked"
  /\ knownNodes' = knownNodes \cup {sha256sum}
  /\ idx' = idx + 1
  /\ pc' = "loop"
  /\ before' = NoLock
  /\ UNCHANGED <<nodes, tree, refresh, periodic, newFiles, err, passes,
                 startNodes, failed, nfetch, processed, repeat, cur, rpc,
                 rarg, got, active, tick, prevFailed, files, chunks, everPut,
                 everPutFile, bgot>>

\* the range loop is over: return nil
LoopEnd ==
  /\ pc = "loop"
  /\ idx > Len(newFiles)
  /\ pc' = "returned"
  /\ err' = "nil"
  /\ active' = active - 1
  /\ UNCHANGED <<nodes, nm, tree, refresh, periodic, newFiles, idx,
                 knownNodes, passes, startNodes, failed, nfetch, processed,
                 repeat, cur, before, rpc, rarg, got, tick, prevFailed,
                 files, chunks, everPut, everPutFile, bgot>>

\* the ticker sends on refresh.C, which holds one tick; while one waits
\* the new one is dropped
TickerFires ==
  /\ refresh
  /\ ~tick
  /\ tree # "none"
  /\ pc # "panic"
  /\ tick' = TRUE
  /\ UNCHANGED <<nodes, nm, tree, refresh, periodic, pc, newFiles, idx,
                 knownNodes, err, passes, startNodes, failed, nfetch,
                 processed, repeat, cur, before, rpc, rarg, got, active,
                 prevFailed, files, chunks, everPut, everPutFile, bgot>>

\* the failures of the passes up to the one that has just returned
EarlierFailures ==
  [fetch |-> prevFailed.fetch \cup ({newFiles[i] : i \in failed} \cap RetryWatched),
   list  |-> prevFailed.list \/ err = "ListFiles"]

\* variant of PeriodicTick: the loop ends when a pass returns an error
PeriodicTickStops ==
  /\ tree = "ready"
  /\ periodic
  /\ pc = "returned"
  /\ err = "nil"
  /\ tick
  /\ passes < MaxRuns
  /\ tick' = FALSE
  /\ pc' = "list"
  /\ idx' = 0
  /\ knownNodes' = {}
  /\ passes' = passes + 1
  /\ failed' = {}
  /\ active' = active + 1
  /\ prevFailed' = EarlierFailures
  /\ UNCHANGED <<nodes, nm, tree, refresh, periodic, newFiles, err,
                 startNodes, nfetch, processed, repeat, cur, before, rpc,
                 rarg, got, files, chunks, everPut, everPutFile, bgot>>

\* variant of PeriodicTick: go t.Refresh() for every tick
PeriodicTickSpawns ==
  /\ tree = "ready"
  /\ periodic
  /\ pc \in {"returned", "list", "loop", "fetch"}
  /\ tick
  /\ passes < MaxRuns
  /\ tick' = FALSE
  /\ pc' = "list"
  /\ idx' = 0
  /\ knownNodes' = {}
  /\ passes' = passes + 1
  /\ failed' = {}
  /\ active' = active + 1
  /\ prevFailed' = EarlierFailures
  /\ UNCHANGED <<nodes, nm, tree, refresh, periodic, newFiles, err,
                 startNodes, nfetch, processed, repeat, cur, before, rpc,
                 rarg, got, files, chunks, everPut, everPutFile, bgot>>

\* periodicRefresh, back at the head of its loop after the Refresh before:
\* <-refresh.C; t.Refresh()
PeriodicTick ==
  /\ tree = "ready"
  /\ periodic
  /\ pc = "returned"
  /\ tick
  /\ passes < MaxRuns
  /\ tick' = FALSE
  /\ pc' = "list"
  /\ idx' = 0
  /\ knownNodes' = {}
  /\ passes' = passes + 1
  /\ failed' = {}
  /\ active' = active + 1
  /\ prevFailed' = EarlierFailures
  /\ UNCHANGED <<nodes, nm, tree, refresh, periodic, newFiles, err,
                 startNodes, nfetch, processed, repeat, cur, before, rpc,
                 rarg, got, files, chunks, everPut, everPutFile, bgot>>

\* the ticker fires while periodicRefresh waits at the head of its loop:
\* <-refresh.C; t.Refresh()
TickAndRefresh ==
  /\ tree = "ready"
  /\ periodic
  /\ pc = "returned"
  /\ passes < MaxPasses
  /\ pc' = "list"
  /\ idx' = 0
  /\ knownNodes' = {}
  /\ passes' = passes + 1
  /\ failed' = {}
  /\ active' = active + 1
  /\ UNCHANGED <<nodes, nm, tree, refresh, periodic, newFiles, err,
                 startNodes, nfetch, processed, repeat, cur, before, rpc,
                 rarg, got, tick, prevFailed, files, chunks, everPut,
                 everPutFile, bgot>>

\* a caller that holds the Tree enters NodeByPath, HasChild or NumNodes:
\* t.nm.RLock() returns when no writer holds the lock
QueryCall ==
  /\ tree = "ready"
  /\ pc # "panic"
  /\ rpc = "idle"
  /\ nm = "unlocked"
  /\ \/ rpc' = "NodeByPath" /\ \E p \in QueryPaths : rarg' = <<p>>
     \/ rpc' = "HasChild" /\ \E p \in QueryParents, c \in QueryNames : rarg' = <<p, c>>
     \/ rpc' = "NumNodes" /\ rarg' = <<>>
  /\ got' = NoResult
  /\ UNCHANGED <<nodes, nm, tree, refresh, periodic, pc, newFiles, idx,
                 knownNodes, err, passes, startNodes, failed, nfetch,
                 processed, repeat, cur, before, active, tick, prevFailed,
                 files, chunks, everPut, everPutFile, bgot>>

\* NodeByPath returns, releasing the read lock
NodeByPathReturn ==
  /\ rpc = "NodeByPath"
  /\ got' = NodeByPath(nodes, rarg[1])
  /\ rpc' = "idle"
  /\ rarg' = <<>>
  /\ UNCHANGED <<nodes, nm, tree, refresh, periodic, pc, newFiles, idx,
                 knownNodes, err, passes, startNodes, failed, nfetch,
                 processed, repeat, cur, before, active, tick, prevFailed,
                 files, chunks, everPut, everPutFile, bgot>>

\* variant of HasChildReturn: the lookup of an absent parent inserts it
HasChildReturnInserts ==
  /\ rpc = "HasChild"
  /\ got' = [op |-> "HasChild", val |-> HasChild(nodes, rarg[1], rarg[2])]
  /\ nodes' = IF rarg[1] \in DOMAIN nodes THEN nodes
              ELSE Put(nodes, rarg[1], ZeroNode)
  /\ rpc' = "idle"
  /\ rarg' = <<>>
  /\ UNCHANGED <<nm, tree, refresh, periodic, pc, newFiles, idx, knownNodes,
                 err, passes, startNodes, failed, nfetch, processed, repeat,
                 cur, before, active, tick, prevFailed, files, chunks,
                 everPut, everPutFile, bgot>>

\* HasChild returns, releasing the read lock
HasChildReturn ==
  /\ rpc = "HasChild"
  /\ got' = [op |-> "HasChild", val |-> HasChild(nodes, rarg[1], rarg[2])]
  /\ rpc' = "idle"
  /\ rarg' = <<>>
  /\ UNCHANGED <<nodes, nm, tree, refresh, periodic, pc, newFiles, idx,
                 knownNodes, err, passes, startNodes, failed, nfetch,
                 processed, repeat, cur, before, active, tick, prevFailed,
                 files, chunks, everPut, everPutFile, bgot>>

\* NumNodes returns, releasing the read lock
NumNodesReturn ==
  /\ rpc = "NumNodes"
  /\ got' = [op |-> "NumNodes", val |-> NumNodes(nodes)]
  /\ rpc' = "idle"
  /\ rarg' = <<>>
  /\ UNCHANGED <<nodes, nm, tree, refresh, periodic, pc, newFiles, idx,
                 knownNodes, err, passes, startNodes, failed, nfetch,
                 processed, repeat, cur, before, active, tick, prevFailed,
                 files, chunks, everPut, everPutFile, bgot>>

\* NewTree, the ticker and periodicRefresh
PeriodicNext ==
  \/ RefreshListOk
  \/ RefreshListErr
  \/ LoopSkipKnown
  \/ GetChunkCall
  \/ GetChunkErr
  \/ FromJSONErr
  \/ GetChunkOk
  \/ Lock
  \/ StaleUnlock
  \/ PutNode
  \/ AddParentsLevel
  \/ Unlock
  \/ LoopEnd
  \/ NewTreeReturn
  \/ TickerFires
  \/ PeriodicTick

PeriodicSpec == ConcInit /\ [][PeriodicNext]_vars

\* NewTree, periodicRefresh and a caller of the query methods
QueryNext ==
  \/ RefreshListOk
  \/ RefreshListErr
  \/ LoopSkipKnown
  \/ GetChunkCall
  \/ GetChunkErr
  \/ FromJSONErr
  \/ GetChunkOk
  \/ Lock
  \/ StaleUnlock
  \/ PutNode
  \/ AddParentsLevel
  \/ Unlock
  \/ LoopEnd
  \/ NewTreeReturn
  \/ TickAndRefresh
  \/ QueryCall
  \/ NodeByPathReturn
  \/ HasChildReturn
  \/ NumNodesReturn

QuerySpec == ConcInit /\ [][QueryNext]_vars

(***************************************************************************)
(* The drive.Client by itself: PutFile, PutChunk, GetChunk and ListFiles   *)
(* of one client, called in any order by any number of callers; each call  *)
(* takes effect at one instant.  A blob is a number, its hash a different  *)
(* number computed from it.                                                *)
(***************************************************************************)
\* the blobs handed to the client, and the content hash of each
BlobBytes == 1..MaxBlobs
Sum(b) == 2 * b + 11
Sums == {Sum(b) : b \in BlobBytes}

\* variant of ClientPutChunk that keeps the last chunk only
ClientPutChunkLast ==
  /\ \E b \in BlobBytes :
       /\ chunks' = Put(<<>>, Sum(b), b)
       /\ everPut' = everPut \cup {Sum(b)}
  /\ UNCHANGED <<treeVars, concVars, files, everPutFile, bgot>>

\* PutChunk(sha256sum, chunk) returns nil
ClientPutChunk ==
  /\ \E b \in BlobBytes :
       /\ chunks' = Put(chunks, Sum(b), b)
       /\ everPut' = everPut \cup {Sum(b)}
  /\ UNCHANGED <<treeVars, concVars, files, everPutFile, bgot>>

\* PutFile(sha256sum, file) returns nil
ClientPutFile ==
  /\ \E b \in BlobBytes :
       /\ chunks' = Put(chunks, Sum(b), b)
       /\ files' = files \cup {Sum(b)}
       /\ everPut' = everPut \cup {Sum(b)}
       /\ everPutFile' = everPutFile \cup {Sum(b)}
  /\ UNCHANGED <<treeVars, concVars, bgot>>

\* GetChunk(sha256sum) returns the bytes, or an error for an unknown hash
ClientGetChunk ==
  /\ \E h \in Sums :
       bgot' = IF h \in DOMAIN chunks
                 THEN [op |-> "GetChunk", sha |-> h, err |-> FALSE, bytes |-> chunks[h]]
                 ELSE [op |-> "GetChunk", sha |-> h, err |-> TRUE, bytes |-> 0]
  /\ UNCHANGED <<treeVars, concVars, files, chunks, everPut, everPutFile>>

\* ListFiles() returns the hashes of the files
ClientListFiles ==
  /\ bgot' = [op |-> "ListFiles", list |-> files]
  /\ UNCHANGED <<treeVars, concVars, files, chunks, everPut, everPutFile>>

BackendNext ==
  \/ ClientPutChunk
  \/ ClientPutFile
  \/ ClientGetChunk
  \/ ClientListFiles

BackendSpec == ConcInit /\ [][BackendNext]_vars

(***************************************************************************)
(* Vocabulary of the properties                                            *)
(***************************************************************************)
\* the directories above a path written without leading or trailing slash
Slashes(p) == {i \in 1..Len(p) : p[i] = "/"}
AncestorDirs(p) == IF p = Root THEN {} ELSE {Root} \cup {SubSeq(p, 1, i - 1) : i \in Slashes(p)}

\* the segment of p immediately below its ancestor directory d
SegmentBelow(d, p) ==
  LET from == IF d = Root THEN 1 ELSE Len(d) + 2
      later == {i \in Slashes(p) : i >= from}
      to == IF later = {} THEN Len(p)
            ELSE (CHOOSE i \in later : \A j \in later : i <= j) - 1
  IN SubSeq(p, from, to)

\* the key set of a Children map, nil or not
ChildSet(n) == IF n.ChildrenNil THEN {} ELSE n.Children

\* a pass has run its loop to the end and returned nil
Completed == pc = "returned" /\ err = "nil" /\ idx > 0

\* the positions of the running pass's list and the hashes at them
Listed == {newFiles[i] : i \in 1..Len(newFiles)}

TypeOK ==
  /\ pc \in {"list", "loop", "fetch", "lock", "check", "parents", "unlock",
            "returned", "panic"}
  /\ rpc \in {"idle", "NodeByPath", "HasChild", "NumNodes"}
  /\ active \in 0..2
  /\ nm \in {"unlocked", "locked"}
  /\ idx \in 0..(MaxList + 1)
  /\ knownNodes \subseteq Hashes

(***************************************************************************)
(* C1  Tree shape: after the bootstrap pass over N records that all fetch  *)
(* and parse, with N distinct paths none of which is an ancestor directory *)
(* of another, NumNodes is N + K, K the number of distinct ancestor        *)
(* directories, the root always counted, and every ancestor directory has  *)
(* the next segment towards each record path as a child.                   *)
(***************************************************************************)
ShapeCase ==
  /\ Completed
  /\ passes = 1
  /\ failed = {}
  /\ \A i \in 1..Len(newFiles) : FromJSON(GetChunk(newFiles[i]))
  /\ \A i, j \in 1..Len(newFiles) :
        i # j => /\ PathOf(newFiles[i]) # PathOf(newFiles[j])
                 /\ PathOf(newFiles[i]) \notin AncestorDirs(PathOf(newFiles[j]))

TreeShape ==
  ShapeCase =>
    LET paths == {PathOf(h) : h \in Listed}
        dirs  == {Root} \cup UNION {AncestorDirs(p) : p \in paths}
    IN /\ NumNodes(nodes) = Len(newFiles) + Cardinality(dirs)
       /\ \A p \in paths : \A d \in AncestorDirs(p) :
             HasChild(nodes, d, SegmentBelow(d, p))

TreeShapeWitness ==
  /\ ShapeCase
  /\ Len(newFiles) = 2
  /\ NumNodes(nodes) = 4
  /\ HasChild(nodes, <<"a">>, <<"b">>)

(***************************************************************************)
(* C2  Last writer wins: when exactly two records of a path, with modified *)
(* times T1 < T2, have been processed, in either order and in the same or  *)
(* in different passes, the node has the hash, size and time of the T2     *)
(* record.                                                                 *)
(***************************************************************************)
LastWriterWins ==
  \A h1, h2 \in processed :
    ( /\ PathOf(h1) = PathOf(h2)
      /\ TimeOf(h1) < TimeOf(h2)
      /\ {h \in processed : PathOf(h) = PathOf(h1)} = {h1, h2} )
    => /\ PathOf(h2) \in DOMAIN nodes
       /\ nodes[PathOf(h2)].Sha256sum = h2
       /\ nodes[PathOf(h2)].Filesize = GetChunk(h2).Filesize
       /\ nodes[PathOf(h2)].ModifiedTime = TimeOf(h2)

\* the later record was processed first, the earlier one after it
LastWriterWinsWitness ==
  /\ \E h1, h2 \in Hashes :
        /\ PathOf(h1) = PathOf(h2) /\ TimeOf(h1) < TimeOf(h2)
        /\ newFiles = <<h2, h1>>
        /\ {h \in processed : PathOf(h) = PathOf(h1)} = {h1, h2}
        /\ nodes[PathOf(h2)].Sha256sum = h2
  /\ Completed
  /\ failed = {}
  /\ passes = 1

(***************************************************************************)
(* C3  Order independence within a pass: a pass that fetched every listed  *)
(* hash ends in the state that every other processing order of the same    *)
(* list ends in (hash, size, time and child set at every path).            *)
(***************************************************************************)
Perms(l) ==
  LET n == Len(l)
      bij == {g \in [1..n -> 1..n] : \A i, j \in 1..n : i # j => g[i] # g[j]}
  IN {[i \in 1..n |-> l[g[i]]] : g \in bij}

SameView(ns, ms) ==
  /\ DOMAIN ns = DOMAIN ms
  /\ \A p \in DOMAIN ns :
        /\ ns[p].Sha256sum = ms[p].Sha256sum
        /\ ns[p].Filesize = ms[p].Filesize
        /\ ns[p].ModifiedTime = ms[p].ModifiedTime
        /\ ChildSet(ns[p]) = ChildSet(ms[p])

OrderIndependent ==
  (Completed /\ failed = {}) =>
    \A l \in Perms(newFiles) :
      LET r == RefreshSeq(startNodes, l)
      IN ~r.panic /\ SameView(r.nodes, nodes)

(***************************************************************************)
(* C4  Replacement rule.  As claimed: the hash of a record node changes    *)
(* only in a step that processes a record of that path with a strictly     *)
(* later modified time, and a record whose time is equal to or earlier     *)
(* than the node's leaves the mapping unchanged.                           *)
(***************************************************************************)
ReplacedOnlyByLater ==
  [][ /\ \A p \in DOMAIN nodes :
           (nodes[p].Sha256sum # NilSha /\ nodes'[p].Sha256sum # nodes[p].Sha256sum)
           => /\ InLoop
              /\ PathOf(sha256sum) = p
              /\ TimeOf(sha256sum) > nodes[p].ModifiedTime
      /\ ( /\ InLoop
           /\ FromJSON(GetChunk(sha256sum))
           /\ PathOf(sha256sum) \in DOMAIN nodes
           /\ nodes[PathOf(sha256sum)].Sha256sum # NilSha
           /\ TimeOf(sha256sum) <= nodes[PathOf(sha256sum)].ModifiedTime )
         => nodes' = nodes ]_vars

(***************************************************************************)
(* C4 as amended: the hash of a record node changes only in a step that    *)
(* processes a record of that path whose modified time is later than or    *)
(* equal to the node's; a fetched record whose time is equal or later is   *)
(* installed; a record whose time is strictly earlier leaves the mapping   *)
(* unchanged.                                                              *)
(***************************************************************************)
ReplacedUnlessEarlier ==
  [][ /\ \A p \in DOMAIN nodes :
           (nodes[p].Sha256sum # NilSha /\ nodes'[p].Sha256sum # nodes[p].Sha256sum)
           => /\ InLoop
              /\ PathOf(sha256sum) = p
              /\ TimeOf(sha256sum) >= nodes[p].ModifiedTime
      /\ ( /\ InLoop
           /\ FromJSON(GetChunk(sha256sum))
           /\ PathOf(sha256sum) \in DOMAIN nodes
           /\ nodes[PathOf(sha256sum)].Sha256sum # NilSha )
         => /\ TimeOf(sha256sum) < nodes[PathOf(sha256sum)].ModifiedTime
                 => nodes' = nodes
            /\ ( /\ TimeOf(sha256sum) >= nodes[PathOf(sha256sum)].ModifiedTime
                 /\ sha256sum \notin knownNodes
                 /\ nfetch' = nfetch + 1
                 /\ failed' = failed )
               => nodes'[PathOf(sha256sum)].Sha256sum = sha256sum ]_vars

\* a record replaced the node of another record with the same modified time
ReplacedUnlessEarlierWitness ==
  \E h1, h2 \in Hashes :
    /\ h1 # h2 /\ PathOf(h1) = PathOf(h2) /\ TimeOf(h1) = TimeOf(h2)
    /\ newFiles = <<h1, h2>>
    /\ knownNodes = {h1, h2}
    /\ nodes[PathOf(h2)].Sha256sum = h2

(***************************************************************************)
(* C5  Monotonic modified time: no step removes a path or lowers the       *)
(* ModifiedTime of the node stored at it.                                  *)
(***************************************************************************)
MonotonicModifiedTime ==
  [][ \A p \in DOMAIN nodes :
        /\ p \in DOMAIN nodes'
        /\ nodes'[p].ModifiedTime >= nodes[p].ModifiedTime ]_vars

\* a later pass has raised the modified time of a record node
MonotonicModifiedTimeWitness ==
  \E p \in DOMAIN startNodes :
    /\ startNodes[p].Sha256sum # NilSha
    /\ nodes[p].ModifiedTime > startNodes[p].ModifiedTime
    /\ \E h \in processed : PathOf(h) = p /\ TimeOf(h) < nodes[p].ModifiedTime

(***************************************************************************)
(* C6  Idempotent refresh: throughout and at the end of a pass that lists  *)
(* the slice of the pass before it, which returned nil and failed no       *)
(* fetch, NumNodes and the child set at every path are what they were      *)
(* when the pass began.                                                    *)
(***************************************************************************)
IdempotentRefresh ==
  (repeat /\ pc # "list") =>
    /\ NumNodes(nodes) = NumNodes(startNodes)
    /\ DOMAIN nodes = DOMAIN startNodes
    /\ \A p \in DOMAIN nodes : ChildSet(nodes[p]) = ChildSet(startNodes[p])

IdempotentRefreshWitness ==
  /\ repeat
  /\ Completed
  /\ failed = {}
  /\ Cardinality(knownNodes) = 2
  /\ NumNodes(nodes) = 4

(***************************************************************************)
(* C7  Reachability: whenever no installation is under way, every proper   *)
(* ancestor directory of every node other than the root exists and has     *)
(* the next segment towards the node among its Children.                   *)
(***************************************************************************)
AllReachable ==
  nm = "unlocked" =>
    \A p \in DOMAIN nodes \ {Root} : \A d \in AncestorDirs(p) :
      HasChild(nodes, d, SegmentBelow(d, p))

(***************************************************************************)
(* C8  Enumeration failure: a pass whose ListFiles failed returns the      *)
(* error with no GetChunk call and the mapping as it was when the pass     *)
(* began; when it is the bootstrap pass, NewTree returns no Tree; and      *)
(* where NewTree returned no Tree there is no periodic task and no later   *)
(* pass.                                                                   *)
(***************************************************************************)
EnumerationFailure ==
  /\ (pc = "returned" /\ err = "ListFiles") =>
        /\ nodes = startNodes
        /\ nfetch = 0
        /\ (passes = 1 /\ tree # "constructing") => tree = "none"
  /\ tree = "none" => (~periodic /\ passes = 1 /\ pc = "returned" /\ err = "ListFiles")

\* a pass after the bootstrap failed to list and the cache kept its nodes
EnumerationFailureWitness ==
  /\ pc = "returned"
  /\ err = "ListFiles"
  /\ passes > 1
  /\ NumNodes(nodes) > 2

(***************************************************************************)
(* C9  Skip on record failure: a pass whose ListFiles succeeded returns    *)
(* nil, and it ends with the mapping that a pass over the list without     *)
(* the positions whose fetch or parse failed ends with.                    *)
(***************************************************************************)
RECURSIVE GoodFrom(_)
GoodFrom(i) ==
  IF i > Len(newFiles) THEN <<>>
  ELSE IF i \in failed \/ ~FromJSON(GetChunk(newFiles[i])) THEN GoodFrom(i + 1)
  ELSE <<newFiles[i]>> \o GoodFrom(i + 1)

SkipOnRecordFailure ==
  (pc = "returned" /\ idx > 0) =>
    /\ err = "nil"
    /\ LET r == RefreshSeq(startNodes, GoodFrom(1))
       IN ~r.panic /\ r.nodes = nodes

\* the fetch of the first listed hash failed and the second was installed
SkipOnRecordFailureWitness ==
  /\ Completed
  /\ failed = {1}
  /\ Len(newFiles) = 2
  /\ newFiles[2] \in knownNodes
  /\ nodes[PathOf(newFiles[2])].Sha256sum = newFiles[2]

(***************************************************************************)
(* C10  No crash on any record: no pass panics, and a pass that has        *)
(* returned has released the write lock.                                   *)
(***************************************************************************)
NoCrash ==
  /\ pc # "panic"
  /\ pc = "returned" => nm = "unlocked"

(***************************************************************************)
(* C12  Nodes are never removed: the root is in the mapping from the       *)
(* start, no step removes a path (the root included), also when no listed  *)
(* record backs it any more, and NumNodes never decreases.                 *)
(***************************************************************************)
NeverRemoved ==
  /\ Root \in DOMAIN nodes
  /\ [][ /\ Root \in DOMAIN nodes'
         /\ DOMAIN nodes \subseteq DOMAIN nodes'
         /\ NumNodes(nodes') >= NumNodes(nodes) ]_vars

\* a later pass has completed without listing the record of a node
NeverRemovedWitness ==
  /\ Completed
  /\ passes > 1
  /\ \E p \in DOMAIN nodes :
        /\ nodes[p].Sha256sum # NilSha
        /\ \A h \in Listed : PathOf(h) # p

(***************************************************************************)
(* C13  Synthetic flag: a node is synthetic exactly when no record of its  *)
(* path has been processed (it exists only as the root or as an ancestor), *)
(* and FileByNode on a synthetic node returns an error with no backend     *)
(* call.                                                                   *)
(***************************************************************************)
SyntheticFlag ==
  \A p \in DOMAIN nodes :
    /\ Synthetic(nodes[p]) <=> ~(\E h \in processed : PathOf(h) = p)
    /\ Synthetic(nodes[p]) =>
         \A fetched \in BOOLEAN :
           /\ FileByNode(nodes[p], fetched).err # "nil"
           /\ FileByNode(nodes[p], fetched).calls = 0

\* an ancestor-only node beside the record node that made it
SyntheticFlagWitness ==
  \E p, q \in DOMAIN nodes :
    /\ p # Root
    /\ Synthetic(nodes[p])
    /\ p \in AncestorDirs(q)
    /\ ~Synthetic(nodes[q])
    /\ FileByNode(nodes[q], TRUE).err = "nil"

(***************************************************************************)
(* C19  No dangling children: whenever the write lock is free, every name  *)
(* in the Children of a node is the last segment of a node of the mapping: *)
(* the name itself under the root, the node's path + "/" + name otherwise. *)
(***************************************************************************)
JoinPath(d, c) == IF d = Root THEN c ELSE d \o <<"/">> \o c

NoDanglingChildren ==
  nm = "unlocked" =>
    \A d \in DOMAIN nodes : \A c \in ChildSet(nodes[d]) :
      JoinPath(d, c) \in DOMAIN nodes

\* two levels of directories list their children
NoDanglingChildrenWitness ==
  /\ nm = "unlocked"
  /\ \E d \in DOMAIN nodes \ {Root} : ChildSet(nodes[d]) # {}
  /\ Cardinality(ChildSet(nodes[Root])) = 2

(***************************************************************************)
(* C11  Periodic refresh keeps going: a Tree that NewTree returned has its *)
(* periodic task; whenever the task waits and a tick is pending it can     *)
(* start a pass, whether the pass before returned nil or an error; a tick  *)
(* is consumed only by the start of a pass; and every record of the        *)
(* running pass that was listed, fetched and parsed has, once its          *)
(* iteration is over, a record node at its path that is no earlier than    *)
(* it, also when its fetch failed in an earlier pass.                      *)
(***************************************************************************)
\* the record at position i of the running pass was fetched and parsed
Fetched(i) == i \notin failed /\ FromJSON(GetChunk(newFiles[i]))

\* the map holds the record of hash h, or a later record of its path
InstalledOrLater(h) ==
  /\ PathOf(h) \in DOMAIN nodes
  /\ ~Synthetic(nodes[PathOf(h)])
  /\ ~After(TimeOf(h), nodes[PathOf(h)].ModifiedTime)

PeriodicRetry ==
  /\ [](tree = "ready" => periodic)
  /\ []((tree = "ready" /\ pc = "returned" /\ tick /\ passes < MaxRuns)
          => ENABLED PeriodicTick)
  /\ [][(tick /\ ~tick') => (pc' = "list" /\ passes' = passes + 1)]_vars
  /\ [](\A i \in 1..Len(newFiles) :
          (i < idx /\ Fetched(i)) => InstalledOrLater(newFiles[i]))

\* a fetch failed, a later pass returned the error of ListFiles, and the pass
\* after that one has installed the record
PeriodicRetryWitness ==
  /\ prevFailed.list
  /\ \E i \in 1..Len(newFiles) :
       /\ i < idx
       /\ Fetched(i)
       /\ newFiles[i] \in prevFailed.fetch
       /\ nodes[PathOf(newFiles[i])].Sha256sum = newFiles[i]

(***************************************************************************)
(* C14  Queries are read-only: the call and the return of NodeByPath,      *)
(* HasChild and NumNodes leave the map and every Children set as they are; *)
(* NodeByPath returns an error and the zero Node exactly for an absent     *)
(* path, and the node of the map otherwise; HasChild is false for an       *)
(* absent parent and for a parent that is a file; NumNodes is the number   *)
(* of keys.                                                                *)
(***************************************************************************)
ReadOnlyQueries ==
  [][/\ rpc' # rpc => nodes' = nodes
     /\ (rpc = "NodeByPath" /\ rpc' = "idle") =>
          /\ got'.op = "NodeByPath"
          /\ got'.err <=> rarg[1] \notin DOMAIN nodes
          /\ got'.node = IF got'.err THEN ZeroNode ELSE nodes[rarg[1]]
     /\ (rpc = "HasChild" /\ rpc' = "idle") =>
          /\ got'.op = "HasChild"
          /\ (rarg[1] \notin DOMAIN nodes') => ~got'.val
          /\ (rarg[1] \in DOMAIN nodes /\ ~Synthetic(nodes[rarg[1]])) => ~got'.val
          /\ (rarg[1] \in DOMAIN nodes /\ Synthetic(nodes[rarg[1]])) =>
               (got'.val <=> rarg[2] \in ChildSet(nodes[rarg[1]]))
     /\ (rpc = "NumNodes" /\ rpc' = "idle") =>
          /\ got'.op = "NumNodes"
          /\ got'.val = Cardinality(DOMAIN nodes)
    ]_vars

\* HasChild("a", "b") has returned false and there is still no node "a"
ReadOnlyQueriesWitness ==
  /\ got.op = "HasChild"
  /\ ~got.val
  /\ <<"a">> \notin DOMAIN nodes
  /\ NumNodes(nodes) = 1

ChainComplete(ns, p) ==
  \A d \in AncestorDirs(p) :
    d \in DOMAIN ns /\ SegmentBelow(d, p) \in ChildSet(ns[d])

AtomicInstall ==
  /\ [](pc \in {"check", "parents", "unlock"} => (nm = "locked" /\ rpc = "idle"))
  /\ [](rpc # "idle" => nm = "unlocked")
  /\ [][nodes' # nodes => (nm = "locked" /\ nm' = "locked")]_vars
  /\ [][(nm = "locked" /\ nm' = "unlocked") =>
          LET node == NodeOf(before.sha)
              r    == InstallNode(before.nodes, node)
          IN IF Stale(before.nodes, node) THEN nodes' = before.nodes
             ELSE /\ ~r.panic
                  /\ nodes' = r.nodes
                  /\ nodes'[node.Filename] = node
                  /\ ChainComplete(nodes', node.Filename)
       ]_vars
  /\ [](nm = "unlocked" =>
          \A p \in DOMAIN nodes : \A d \in AncestorDirs(p) :
            /\ d \in DOMAIN nodes
            /\ Synthetic(nodes[d]) => SegmentBelow(d, p) \in ChildSet(nodes[d]))

\* a caller's NodeByPath("a") returned the error, and Refresh has since
\* installed "a/b" with its chain and released the lock
AtomicInstallWitness ==
  /\ got.op = "NodeByPath"
  /\ got.err
  /\ <<"a", "/", "b">> \in DOMAIN nodes
  /\ ChainComplete(nodes, <<"a", "/", "b">>)
  /\ nm = "unlocked"
  /\ pc = "loop"

(***************************************************************************)
(* C17  Backend I/O outside the lock: while Refresh is in ListFiles or in  *)
(* GetChunk the lock is free; a caller that holds the Tree can then enter  *)
(* a query, and a caller inside a query can return from it, however long   *)
(* the backend call lasts.                                                 *)
(***************************************************************************)
InBackendCall == pc \in {"list", "fetch"}

IOOutsideLock ==
  /\ InBackendCall => nm = "unlocked"
  /\ (InBackendCall /\ tree = "ready" /\ rpc = "idle") => ENABLED QueryCall
  /\ (InBackendCall /\ rpc = "NodeByPath") => ENABLED NodeByPathReturn
  /\ (InBackendCall /\ rpc = "HasChild") => ENABLED HasChildReturn
  /\ (InBackendCall /\ rpc = "NumNodes") => ENABLED NumNodesReturn

\* a caller is inside NodeByPath while the second pass is in GetChunk
IOOutsideLockWitness ==
  /\ pc = "fetch"
  /\ passes > 1
  /\ rpc = "NodeByPath"

(***************************************************************************)
(* C18  One pass at a time: at most one execution of Refresh is running;   *)
(* the periodic task exists only once NewTree's own pass has returned; it  *)
(* takes a tick only when no pass is running; and a tick that fires while  *)
(* a pass runs starts nothing.                                             *)
(***************************************************************************)
\* Refresh is between its call and its return
Running == pc \notin {"returned", "panic"}

OnePassAtATime ==
  /\ [](active \in {0, 1})
  /\ [](active = 1 <=> Running \/ pc = "panic")
  /\ [](tree = "constructing" => ~periodic)
  /\ [](periodic => tree = "ready")
  /\ [][(passes' # passes) =>
          (active = 0 /\ pc = "returned" /\ periodic /\ tick /\ active' = 1)]_vars
  /\ [][(Running /\ tick' # tick) => (tick' /\ pc' = pc /\ active' = active)]_vars

\* the ticker has fired while the second pass is still fetching
OnePassAtATimeWitness ==
  /\ passes = 2
  /\ pc = "fetch"
  /\ tick
  /\ active = 1

(***************************************************************************)
(* C20  Returned node is a snapshot: as long as the caller makes no new    *)
(* call, the Node that NodeByPath returned, its Children included, reads   *)
(* the same at every later moment.                                         *)
(***************************************************************************)
\* what the caller reads in the Children of the Node it was returned: the
\* map of the Tree's node while the two are one map
ReturnedChildren ==
  IF got.alias THEN ChildSet(nodes[got.node.Filename]) ELSE ChildSet(got.node)

ReturnedNodeIsSnapshot ==
  [][(got.op = "NodeByPath" /\ got'.op = "NodeByPath") =>
       /\ got'.err = got.err
       /\ got'.node.Filename = got.node.Filename
       /\ got'.node.Filesize = got.node.Filesize
       /\ got'.node.ModifiedTime = got.node.ModifiedTime
       /\ got'.node.Sha256sum = got.node.Sha256sum
       /\ ReturnedChildren' = ReturnedChildren
    ]_vars
====
